---- MODULE Spec2Model ----
(***************************************************************************)
(* Build-time content pipeline of the church website:                      *)
(*   src/src/_data/sermons.js      sermon feed ingestor, scripture         *)
(*                                 normalizer, duration parser, facets     *)
(*   src/unnamed/part_000          calendar feed ingestor (lines 276-365)  *)
(*   src/scripts/optimize-images.js  post-build HTML image rewriter        *)
(*                                                                         *)
(* JavaScript strings are TLA+ strings; TLC evaluates Len, \o and SubSeq   *)
(* on them, so the string functions of the code are computed character by  *)
(* character and not abstracted.                                           *)
(***************************************************************************)
EXTENDS Integers, Sequences, FiniteSets, TLC

VARIABLES
  text, normalized, npc,          \* normalizeScripture: argument, result, position
  arg,                            \* how the argument was put together
  durationStr, durationSeconds, dpc,  \* parseDuration: argument, result, position
  feed,        \* sermons: the items of the feed at the endpoint
  spc,         \* sermons: position in the exported function
  promise,     \* sermons: how the promise of the exported function settled
  failure,     \* sermons: the step that threw, "none" if none did
  previous,    \* sermons: how the promise of the build before this one settled
  htmlFiles,   \* images: the files glob found, as they were before the run
  disk,        \* images: the content of each of these files on disk
  ipc,         \* images: position in main and processHtmlFile
  fileIdx,     \* images: the file the loop of main is at
  imgIdx,      \* images: the image the loop of processHtmlFile is at
  dom,         \* images: the loaded document of the file being processed
  processedCount, skippedCount,   \* images: the counters of processHtmlFile
  generated,   \* images: the variant files written so far
  transformed, \* images: the <<file, image>> pairs replaced by a <picture>
  wrote,       \* images: the files writeFile was called for
  visited,     \* images: the files processHtmlFile returned from
  looked,      \* images: <<file, image, path>> for the paths processImage looked at
  run,         \* images: how many times main was started
  events,      \* calendar: the entries of the feed at the endpoint
  now,         \* calendar: the time the function read from the clock
  cpc,         \* calendar: position in the exported function
  eventIdx,    \* calendar: the entry the loop is at
  eventList,   \* calendar: the events pushed so far
  origin,      \* calendar: for each event of eventList, the entry it is from
  calendar     \* calendar: how the promise of the exported function settled

normVars == <<text, normalized, npc, arg>>
durVars  == <<durationStr, durationSeconds, dpc>>
sermonVars == <<feed, spc, promise, failure, previous>>
vars     == <<text, normalized, npc, arg, durationStr, durationSeconds, dpc,
              feed, spc, promise, failure, previous,
              htmlFiles, disk, ipc, fileIdx, imgIdx, dom, processedCount,
              skippedCount, generated, transformed, wrote, visited, looked, run,
              events, now, cpc, eventIdx, eventList, origin, calendar>>
calendarVars == <<events, now, cpc, eventIdx, eventList, origin, calendar>>
imageVars == <<htmlFiles, disk, ipc, fileIdx, imgIdx, dom, processedCount,
               skippedCount, generated, transformed, wrote, visited, looked, run>>

(***************************************************************************)
(* JavaScript values.  A string is a TLA+ string; undefined (an absent     *)
(* field) is a marker that no string of the model's inputs equals, since   *)
(* TLC compares strings only with strings.  A number is a record, so that  *)
(* NaN is a value of its own and arithmetic propagates it.                 *)
(***************************************************************************)
Undefined == "<undefined>"

Num(n)   == [isNaN |-> FALSE, n |-> n]
NaN      == [isNaN |-> TRUE,  n |-> 0]
numAdd(a, b) == IF a.isNaN \/ b.isNaN THEN NaN ELSE Num(a.n + b.n)
numMul(a, b) == IF a.isNaN \/ b.isNaN THEN NaN ELSE Num(a.n * b.n)

(***************************************************************************)
(* String primitives of String.prototype, on the characters the model's    *)
(* inputs are made of.                                                     *)
(***************************************************************************)
UpperLetters == "ABCDEFGHIJKLMNOPQRSTUVWXYZ"
LowerLetters == "abcdefghijklmnopqrstuvwxyz"
Digits       == "0123456789"

CharAt(s, i) == SubSeq(s, i, i)

CharsOf(s) == { CharAt(s, i) : i \in 1..Len(s) }

IndexIn(alphabet, c) == CHOOSE i \in 1..Len(alphabet) : CharAt(alphabet, i) = c

IsUpper(c) == c \in CharsOf(UpperLetters)
IsLower(c) == c \in CharsOf(LowerLetters)
IsLetter(c) == IsUpper(c) \/ IsLower(c)
IsDigit(c) == c \in CharsOf(Digits)
IsWhitespace(c) == c \in {" ", "\t", "\n"}

LowerChar(c) == IF IsUpper(c) THEN CharAt(LowerLetters, IndexIn(UpperLetters, c)) ELSE c
UpperChar(c) == IF IsLower(c) THEN CharAt(UpperLetters, IndexIn(LowerLetters, c)) ELSE c

RECURSIVE toLowerCase(_)
toLowerCase(s) ==
  IF s = "" THEN "" ELSE LowerChar(Head(s)) \o toLowerCase(Tail(s))

RECURSIVE toUpperCase(_)
toUpperCase(s) ==
  IF s = "" THEN "" ELSE UpperChar(Head(s)) \o toUpperCase(Tail(s))

startsWith(s, prefix) ==
  Len(prefix) <= Len(s) /\ SubSeq(s, 1, Len(prefix)) = prefix

endsWith(s, suffix) ==
  Len(suffix) <= Len(s) /\ SubSeq(s, Len(s) - Len(suffix) + 1, Len(s)) = suffix

\* s.slice(n) for 0 <= n
slice(s, n) == IF n >= Len(s) THEN "" ELSE SubSeq(s, n + 1, Len(s))

includes(s, sub) ==
  \E i \in 1..(Len(s) - Len(sub) + 1) : SubSeq(s, i, i + Len(sub) - 1) = sub

RECURSIVE trimStart(_)
trimStart(s) ==
  IF s # "" /\ IsWhitespace(Head(s)) THEN trimStart(Tail(s)) ELSE s

RECURSIVE trimEnd(_)
trimEnd(s) ==
  IF s # "" /\ IsWhitespace(CharAt(s, Len(s)))
  THEN trimEnd(SubSeq(s, 1, Len(s) - 1)) ELSE s

trim(s) == trimEnd(trimStart(s))

(***************************************************************************)
(* sermons.js: normalizeScripture                                          *)
(***************************************************************************)
\* The alias table in Object.entries order (no key is an integer index, so
\* the order is the order of the literal).
bookNormalization ==
  << <<"genesis", "Genesis">>,
     <<"gen", "Genesis">>,
     <<"exodus", "Exodus">>,
     <<"exod", "Exodus">>,
     <<"leviticus", "Leviticus">>,
     <<"lev", "Leviticus">>,
     <<"numbers", "Numbers">>,
     <<"num", "Numbers">>,
     <<"deuteronomy", "Deuteronomy">>,
     <<"deut", "Deuteronomy">>,
     <<"joshua", "Joshua">>,
     <<"josh", "Joshua">>,
     <<"judges", "Judges">>,
     <<"judg", "Judges">>,
     <<"ruth", "Ruth">>,
     <<"1 samuel", "1 Samuel">>,
     <<"1 sam", "1 Samuel">>,
     <<"2 samuel", "2 Samuel">>,
     <<"2 sam", "2 Samuel">>,
     <<"1 kings", "1 Kings">>,
     <<"1 kgs", "1 Kings">>,
     <<"2 kings", "2 Kings">>,
     <<"2 kgs", "2 Kings">>,
     <<"1 chronicles", "1 Chronicles">>,
     <<"1 chr", "1 Chronicles">>,
     <<"2 chronicles", "2 Chronicles">>,
     <<"2 chr", "2 Chronicles">>,
     <<"ezra", "Ezra">>,
     <<"nehemiah", "Nehemiah">>,
     <<"neh", "Nehemiah">>,
     <<"esther", "Esther">>,
     <<"esth", "Esther">>,
     <<"job", "Job">>,
     <<"psalms", "Psalms">>,
     <<"psalm", "Psalms">>,
     <<"ps", "Psalms">>,
     <<"proverbs", "Proverbs">>,
     <<"prov", "Proverbs">>,
     <<"ecclesiastes", "Ecclesiastes">>,
     <<"eccl", "Ecclesiastes">>,
     <<"song of solomon", "Song of Solomon">>,
     <<"song of songs", "Song of Solomon">>,
     <<"song", "Song of Solomon">>,
     <<"isaiah", "Isaiah">>,
     <<"isa", "Isaiah">>,
     <<"jeremiah", "Jeremiah">>,
     <<"jer", "Jeremiah">>,
     <<"lamentations", "Lamentations">>,
     <<"lam", "Lamentations">>,
     <<"ezekiel", "Ezekiel">>,
     <<"ezek", "Ezekiel">>,
     <<"daniel", "Daniel">>,
     <<"dan", "Daniel">>,
     <<"hosea", "Hosea">>,
     <<"hos", "Hosea">>,
     <<"joel", "Joel">>,
     <<"amos", "Amos">>,
     <<"obadiah", "Obadiah">>,
     <<"obad", "Obadiah">>,
     <<"jonah", "Jonah">>,
     <<"micah", "Micah">>,
     <<"mic", "Micah">>,
     <<"nahum", "Nahum">>,
     <<"nah", "Nahum">>,
     <<"habakkuk", "Habakkuk">>,
     <<"hab", "Habakkuk">>,
     <<"zephaniah", "Zephaniah">>,
     <<"zeph", "Zephaniah">>,
     <<"haggai", "Haggai">>,
     <<"hag", "Haggai">>,
     <<"zechariah", "Zechariah">>,
     <<"zech", "Zechariah">>,
     <<"malachi", "Malachi">>,
     <<"mal", "Malachi">>,
     <<"matthew", "Matthew">>,
     <<"matt", "Matthew">>,
     <<"mark", "Mark">>,
     <<"luke", "Luke">>,
     <<"john", "John">>,
     <<"acts", "Acts">>,
     <<"romans", "Romans">>,
     <<"rom", "Romans">>,
     <<"1 corinthians", "1 Corinthians">>,
     <<"1 cor", "1 Corinthians">>,
     <<"2 corinthians", "2 Corinthians">>,
     <<"2 cor", "2 Corinthians">>,
     <<"galatians", "Galatians">>,
     <<"galations", "Galatians">>,
     <<"gal", "Galatians">>,
     <<"ephesians", "Ephesians">>,
     <<"eph", "Ephesians">>,
     <<"philippians", "Philippians">>,
     <<"phillipians", "Philippians">>,
     <<"phil", "Philippians">>,
     <<"colossians", "Colossians">>,
     <<"col", "Colossians">>,
     <<"1 thessalonians", "1 Thessalonians">>,
     <<"1 thess", "1 Thessalonians">>,
     <<"2 thessalonians", "2 Thessalonians">>,
     <<"2 thess", "2 Thessalonians">>,
     <<"1 timothy", "1 Timothy">>,
     <<"1 tim", "1 Timothy">>,
     <<"2 timothy", "2 Timothy">>,
     <<"2 tim", "2 Timothy">>,
     <<"titus", "Titus">>,
     <<"philemon", "Philemon">>,
     <<"phlm", "Philemon">>,
     <<"hebrews", "Hebrews">>,
     <<"heb", "Hebrews">>,
     <<"james", "James">>,
     <<"jas", "James">>,
     <<"1 peter", "1 Peter">>,
     <<"1 pet", "1 Peter">>,
     <<"2 peter", "2 Peter">>,
     <<"2 pet", "2 Peter">>,
     <<"1 john", "1 John">>,
     <<"2 john", "2 John">>,
     <<"3 john", "3 John">>,
     <<"jude", "Jude">>,
     <<"revelation", "Revelation">>,
     <<"rev", "Revelation">> >>

variantOf(i) == bookNormalization[i][1]
canonicalOf(i) == bookNormalization[i][2]

\* a loop condition that forgets the word boundary
variantMatchesNoBoundary(lowerText, i) ==
  startsWith(lowerText, variantOf(i))

\* the condition of the loop body for entry i
variantMatches(lowerText, i) ==
  startsWith(lowerText, variantOf(i) \o " ") \/ lowerText = variantOf(i)

\* the return statement inside the loop
normalizedWith(cleaned, i) ==
  LET remainder == trim(slice(cleaned, Len(variantOf(i))))
  IN  canonicalOf(i) \o (IF remainder # "" THEN " " \o remainder ELSE "")

normalizeScripture(t) ==
  IF t = Undefined \/ t = "" THEN ""
  ELSE LET cleaned == trim(t)
           lowerText == toLowerCase(cleaned)
           hits == { i \in 1..Len(bookNormalization) : variantMatches(lowerText, i) }
       IN  IF hits = {} THEN cleaned
           \* the for loop returns at the first entry that matches
           ELSE normalizedWith(cleaned, CHOOSE i \in hits : \A j \in hits : i <= j)

(***************************************************************************)
(* Arguments of normalizeScripture: every alias of the table, in three     *)
(* letter cases, alone or followed by a chapter/verse suffix or by more    *)
(* letters, with and without surrounding white space.                      *)
(***************************************************************************)
RECURSIVE titleCase(_, _)
titleCase(s, atStart) ==
  IF s = "" THEN ""
  ELSE (IF atStart THEN UpperChar(Head(s)) ELSE Head(s))
         \o titleCase(Tail(s), Head(s) = " ")

CaseStyles == {"lower", "upper", "title"}
inCase(style, s) ==
  CASE style = "lower" -> s
    [] style = "upper" -> toUpperCase(s)
    [] style = "title" -> titleCase(s, TRUE)

Suffixes == {"3:16", "1", "1:1-2:3"}
\* what may follow an alias directly: nothing, a suffix, or letters that make
\* it a different word
Followers == {""} \cup { " " \o s : s \in Suffixes } \cup {"x 3:16", "s"}
Paddings == {"", " "}

\* how an argument is put together: alias i of the table in a letter case,
\* what follows it, and the white space around the whole
AliasArgs ==
  [alias : 1..Len(bookNormalization), style : CaseStyles, follower : Followers,
   padLeft : Paddings, padRight : Paddings]

textOf(a) ==
  a.padLeft \o inCase(a.style, variantOf(a.alias)) \o a.follower \o a.padRight

\* an argument that is not built from an alias
NoAlias == [alias |-> 0, style |-> "lower", follower |-> "", padLeft |-> "", padRight |-> ""]

OtherTexts == {Undefined, "", " ", "3:16", "Sermon on the Mount"}

NormIdle == text = "" /\ normalized = "" /\ npc = "idle" /\ arg = NoAlias

NormInit ==
  /\ \/ arg \in AliasArgs /\ text = textOf(arg)
     \/ arg = NoAlias /\ text \in OtherTexts
  /\ normalized = ""
  /\ npc = "call"

Normalize ==
  /\ npc = "call"
  /\ normalized' = normalizeScripture(text)
  /\ npc' = "done"
  /\ UNCHANGED <<text, arg>>

\* the aliases that the text starts with, each followed by a space or by the
\* end of the text
boundaryMatches(t) ==
  LET l == toLowerCase(trim(t))
  IN  { i \in 1..Len(bookNormalization) :
          l = variantOf(i) \/ startsWith(l, variantOf(i) \o " ") }

\* C6: for every alias a of the table, in any letter case, with canonical
\* name c, and every chapter/verse suffix s: normalizeScripture(a) = c and
\* normalizeScripture(a + " " + s) = c + " " + s (surrounding white space
\* aside); the text is changed only when an alias is followed by a space or
\* the end of the string; and when several aliases match, the canonical name
\* of the longest one is used and the rest of the text is kept.
C6_AliasesNormalized ==
  npc = "done" =>
    /\ (arg # NoAlias /\ arg.follower = "") => normalized = canonicalOf(arg.alias)
    /\ (arg # NoAlias /\ arg.follower \in { " " \o sfx : sfx \in Suffixes })
         => normalized = canonicalOf(arg.alias) \o arg.follower
    /\ (text # Undefined /\ boundaryMatches(text) = {}) => normalized = trim(text)
    /\ text # Undefined =>
         \A i \in boundaryMatches(text) :
           (\A j \in boundaryMatches(text) : Len(variantOf(j)) <= Len(variantOf(i)))
             => /\ startsWith(normalized, canonicalOf(i))
                /\ endsWith(normalized, trim(slice(trim(text), Len(variantOf(i)))))

C6_Witness ==
  /\ npc = "done"
  /\ text = "SONG OF SONGS 3:16"
  /\ normalized = "Song of Solomon 3:16"

(***************************************************************************)
(* sermons.js: parseDuration                                               *)
(***************************************************************************)
RECURSIVE digitsValue(_)
digitsValue(s) ==
  IF s = "" THEN 0
  ELSE digitsValue(SubSeq(s, 1, Len(s) - 1)) * 10
         + (IndexIn(Digits, CharAt(s, Len(s))) - 1)

IsDigits(s) == \A c \in CharsOf(s) : IsDigit(c)

\* Number(string): white space is trimmed, the empty string is 0, a run of
\* decimal digits is its value, and every other string of the model's
\* alphabet (digits, ":", " " and the letter "a") is NaN.
Number(s) ==
  LET t == trim(s)
  IN  IF t = "" THEN Num(0)
      ELSE IF IsDigits(t) THEN Num(digitsValue(t))
      ELSE NaN

\* s.split(":"): s is cut at every ":", an empty string gives one empty part
RECURSIVE split(_, _)
split(s, sep) ==
  IF ~includes(s, sep) THEN <<s>>
  ELSE LET k == CHOOSE i \in 1..Len(s) :
                  /\ CharAt(s, i) = sep
                  /\ \A j \in 1..(i - 1) : CharAt(s, j) # sep
       IN  <<SubSeq(s, 1, k - 1)>> \o split(slice(s, k), sep)

parseDuration(d) ==
  IF d = Undefined \/ d = "" THEN Num(0)
  ELSE LET parts == [k \in 1..Len(split(d, ":")) |-> Number(split(d, ":")[k])]
       IN  IF Len(parts) = 3
             THEN numAdd(numAdd(numMul(parts[1], Num(3600)), numMul(parts[2], Num(60))), parts[3])
           ELSE IF Len(parts) = 2
             THEN numAdd(numMul(parts[1], Num(60)), parts[2])
           ELSE Num(0)

\* Arguments of parseDuration: every string over DurationAlphabet of at most
\* MaxDurationLen characters, the examples of the specification, and an
\* absent field.
MaxDurationLen == 4
DurationAlphabet == {"0", "3", "5", ":", "a"}

RECURSIVE stringsUpTo(_, _)
stringsUpTo(alphabet, n) ==
  IF n = 0 THEN {""}
  ELSE stringsUpTo(alphabet, n - 1)
         \cup { s \o c : s \in stringsUpTo(alphabet, n - 1), c \in alphabet }

DurationStrings ==
  stringsUpTo(DurationAlphabet, MaxDurationLen)
    \cup {Undefined, "1:02:03", "5:30", "1:2:3:4", "45"}

DurIdle == durationStr = "" /\ durationSeconds = Num(0) /\ dpc = "idle"

DurInit == durationStr \in DurationStrings /\ durationSeconds = Num(0) /\ dpc = "call"

ParseDuration ==
  /\ dpc = "call"
  /\ durationSeconds' = parseDuration(durationStr)
  /\ dpc' = "done"
  /\ UNCHANGED durationStr

\* a duration in H:MM:SS or MM:SS form: two or three parts, each a non-empty
\* run of digits
WellFormedDuration(d) ==
  /\ d # Undefined
  /\ Len(split(d, ":")) \in {2, 3}
  /\ \A k \in 1..Len(split(d, ":")) : split(d, ":")[k] # "" /\ IsDigits(split(d, ":")[k])

\* C7: "1:02:03" gives 3723 and "5:30" gives 330, a well-formed duration
\* gives its total of seconds, and every malformed or absent duration gives
\* exactly 0, never NaN.
C7_DurationSecondsOrZero ==
  dpc = "done" =>
    /\ durationStr = "1:02:03" => durationSeconds = Num(3723)
    /\ durationStr = "5:30" => durationSeconds = Num(330)
    /\ ~durationSeconds.isNaN
    /\ ~WellFormedDuration(durationStr) => durationSeconds = Num(0)

(***************************************************************************)
(* sermons.js: extractBook                                                 *)
(***************************************************************************)
\* the longest run of letters at the start of s
RECURSIVE lettersPrefix(_)
lettersPrefix(s) ==
  IF s # "" /\ IsLetter(Head(s)) THEN Head(s) \o lettersPrefix(Tail(s)) ELSE ""

\* scripture.match(/^(\d?\s?[A-Za-z]+)/): an optional digit, an optional
\* white space, then one letter or more; the greedy choices are tried first
\* and given back when no letter follows.  The result is the trimmed match,
\* or "" when nothing matches.
extractBook(scripture) ==
  IF scripture = Undefined \/ scripture = "" THEN ""
  ELSE LET d == IF IsDigit(Head(scripture)) THEN 1 ELSE 0
           afterD == slice(scripture, d)
           w == IF afterD # "" /\ IsWhitespace(Head(afterD)) THEN 1 ELSE 0
           \* the numbers of characters the two optional parts may take, in
           \* the order the regular expression tries them
           tries == <<d + w, d, 0>>
           ok(n) == lettersPrefix(slice(scripture, n)) # ""
           matchAt(n) == SubSeq(scripture, 1, n) \o lettersPrefix(slice(scripture, n))
       IN  IF ok(tries[1]) THEN trim(matchAt(tries[1]))
           ELSE IF ok(tries[2]) THEN trim(matchAt(tries[2]))
           ELSE IF ok(tries[3]) THEN trim(matchAt(tries[3]))
           ELSE ""

(***************************************************************************)
(* [...new Set(a)], filter(Boolean), and the two string orders of the code *)
(***************************************************************************)
\* [...new Set(a)]: the first occurrence of every value, in order
RECURSIVE unique(_)
unique(a) ==
  IF a = <<>> THEN <<>>
  ELSE LET front == unique(SubSeq(a, 1, Len(a) - 1))
           last == a[Len(a)]
       IN  IF \E i \in 1..Len(front) : front[i] = last THEN front
           ELSE Append(front, last)

\* a.filter(Boolean) on strings: the empty strings are dropped
RECURSIVE filterBoolean(_)
filterBoolean(a) ==
  IF a = <<>> THEN <<>>
  ELSE IF a[Len(a)] = "" THEN filterBoolean(SubSeq(a, 1, Len(a) - 1))
  ELSE Append(filterBoolean(SubSeq(a, 1, Len(a) - 1)), a[Len(a)])

\* a.map(x => x[field])
RECURSIVE pluck(_, _)
pluck(a, field) ==
  IF a = <<>> THEN <<>>
  ELSE Append(pluck(SubSeq(a, 1, Len(a) - 1), field), a[Len(a)][field])

\* order of UTF-16 code units, for the default sort()
CodeUnits == " -./0123456789:ABCDEFGHIJKLMNOPQRSTUVWXYZ_abcdefghijklmnopqrstuvwxyz"
\* primary collation order of String.prototype.localeCompare: white space,
\* then digits, then letters without regard to case
Collation == " 0123456789abcdefghijklmnopqrstuvwxyz"

RECURSIVE compareBy(_, _, _)
\* lexicographic comparison of two strings by the weights weight(c)
compareBy(x, y, alphabet) ==
  IF x = "" /\ y = "" THEN 0
  ELSE IF x = "" THEN -1
  ELSE IF y = "" THEN 1
  ELSE LET wx == IndexIn(alphabet, Head(x))
           wy == IndexIn(alphabet, Head(y))
       IN  IF wx < wy THEN -1
           ELSE IF wx > wy THEN 1
           ELSE compareBy(Tail(x), Tail(y), alphabet)

\* tertiary difference: at the first place where only the case differs, the
\* lower-case letter comes first
RECURSIVE compareCase(_, _)
compareCase(x, y) ==
  IF x = "" \/ y = "" THEN 0
  ELSE IF Head(x) = Head(y) THEN compareCase(Tail(x), Tail(y))
  ELSE IF IsLower(Head(x)) THEN -1 ELSE 1

localeCompare(x, y) ==
  LET primary == compareBy(toLowerCase(x), toLowerCase(y), Collation)
  IN  IF primary # 0 THEN primary ELSE compareCase(x, y)

defaultCompare(x, y) == compareBy(x, y, CodeUnits)

(***************************************************************************)
(* sermons.js: the exported function.  One feed per behaviour; the steps   *)
(* are the two awaits (fetch, parse) and the synchronous rest.             *)
(*                                                                         *)
(* An item is what rss-parser hands over.  pubDate stands for the time     *)
(* value of new Date(item.pubDate): a number of half-years, or NaN for a   *)
(* missing or unparsable date.  rss-parser sets isoDate only from a        *)
(* parsable pubDate, so no item has an isoDate and an invalid pubDate.     *)
(***************************************************************************)
MaxItems == 4

FeedItems ==
  { [content |-> "2 john 1:5", description |-> Undefined, pubDate |-> Num(2),
     isoDate |-> "iso-2", speaker |-> "Pastor B", duration |-> "5:30",
     link |-> "l-a", guid |-> "g-a"],
    [content |-> "1 John 3:16", description |-> "text", pubDate |-> Num(1),
     isoDate |-> "iso-1", speaker |-> Undefined, duration |-> "1:02:03",
     link |-> "l-b", guid |-> Undefined],
    [content |-> "3 JOHN 4", description |-> Undefined, pubDate |-> Num(2),
     isoDate |-> Undefined, speaker |-> "Pastor A", duration |-> "a:30",
     link |-> Undefined, guid |-> Undefined],
    [content |-> "Acts 2:1", description |-> Undefined, pubDate |-> Num(3),
     isoDate |-> "iso-3", speaker |-> "Pastor A", duration |-> Undefined,
     link |-> Undefined, guid |-> "g-d"],
    [content |-> Undefined, description |-> "1 kgs 3", pubDate |-> Num(1),
     isoDate |-> "iso-1", speaker |-> "Pastor B", duration |-> "45",
     link |-> Undefined, guid |-> Undefined],
    [content |-> Undefined, description |-> Undefined, pubDate |-> NaN,
     isoDate |-> Undefined, speaker |-> Undefined, duration |-> Undefined,
     link |-> "l-f", guid |-> "g-f"],
    [content |-> "Sermon on the Mount", description |-> Undefined, pubDate |-> Num(3),
     isoDate |-> "iso-3", speaker |-> "pastor c", duration |-> "5:30",
     link |-> "l-g", guid |-> "g-g"] }

Feeds == UNION { [1..n -> FeedItems] : n \in 0..MaxItems }

\* a || b for strings: a unless it is absent or empty
orElse(a, b) == IF a = Undefined \/ a = "" THEN b ELSE a

\* Date.prototype.getFullYear of a valid date
getFullYear(t) == 2024 + (t.n \div 2)

\* Date.prototype.toISOString of a valid date
toISOString(t) == "iso-" \o ToString(t.n)

\* lines 233 and 241: toISOString throws a RangeError on an invalid date,
\* and is called only when the item has no isoDate
itemThrows(item) == orElse(item.isoDate, "") = "" /\ item.pubDate.isNaN

\* the callback of feed.items.map, for an item it does not throw on; index
\* counts from 0
\* an identifier that is the position of the item for every item
positionalGuid(item, index) == "sermon-" \o ToString(index)

\* line 251: item.guid || item.link || `sermon-${index}`
guidOf(item, index) ==
  orElse(item.guid, orElse(item.link, "sermon-" \o ToString(index)))

sermonOf(item, index) ==
  LET scripture == orElse(item.content, orElse(item.description, ""))
      normalizedScripture == normalizeScripture(scripture)
  IN  [id |-> index,
       speaker |-> orElse(item.speaker, "Unknown Speaker"),
       date |-> item.pubDate,
       isoDate |-> orElse(item.isoDate, toISOString(item.pubDate)),
       year |-> getFullYear(item.pubDate),
       scripture |-> scripture,
       scriptureNormalized |-> normalizedScripture,
       book |-> extractBook(normalizedScripture),
       duration |-> orElse(item.duration, ""),
       durationSeconds |-> parseDuration(item.duration),
       link |-> orElse(item.link, ""),
       guid |-> guidOf(item, index)]

\* a comparator that sorts the oldest first
byDateAscending(x, y) == x.date.n - y.date.n

\* line 256: (a, b) => new Date(b.date) - new Date(a.date)
byDateDescending(x, y) == y.date.n - x.date.n

\* a.match(/^(\d+)/): the leading digits, "" when there are none
RECURSIVE leadingDigits(_)
leadingDigits(s) ==
  IF s # "" /\ IsDigit(Head(s)) THEN Head(s) \o leadingDigits(Tail(s)) ELSE ""

\* a.replace(/^\d+\s*/, '')
withoutNumber(s) ==
  IF leadingDigits(s) = "" THEN s
  ELSE trimStart(slice(s, Len(leadingDigits(s))))

\* lines 260-271: the comparator of the books facet
compareBooks(x, y) ==
  IF /\ withoutNumber(x) = withoutNumber(y)
     /\ leadingDigits(x) # "" /\ leadingDigits(y) # ""
  THEN digitsValue(leadingDigits(x)) - digitsValue(leadingDigits(y))
  ELSE localeCompare(x, y)

\* lines 272-274: (a, b) => b - a
descendingNumbers(x, y) == y - x

\* the comparators of the three sorts that are given one, and the default
\* order of the sort that is not
\* a comparator that puts the latest start first
byStartDescending(a, b) == b.start.n - a.start.n

\* part_000, line 349: (a, b) => a.start - b.start
byStartAscending(a, b) == a.start.n - b.start.n

compare(comparator, x, y) ==
  CASE comparator = "byDate" -> byDateDescending(x, y)
    [] comparator = "byStart" -> byStartAscending(x, y)
    [] comparator = "books" -> compareBooks(x, y)
    [] comparator = "years" -> descendingNumbers(x, y)
    [] comparator = "default" -> defaultCompare(x, y)

\* Array.prototype.sort is stable: an element goes behind every element that
\* does not compare greater than it
RECURSIVE insertSorted(_, _, _)
insertSorted(sorted, x, comparator) ==
  IF sorted = <<>> THEN <<x>>
  ELSE IF compare(comparator, sorted[Len(sorted)], x) <= 0 THEN Append(sorted, x)
  ELSE Append(insertSorted(SubSeq(sorted, 1, Len(sorted) - 1), x, comparator),
              sorted[Len(sorted)])

RECURSIVE sort(_, _)
sort(a, comparator) ==
  IF a = <<>> THEN <<>>
  ELSE insertSorted(sort(SubSeq(a, 1, Len(a) - 1), comparator), a[Len(a)], comparator)

\* lines 227-253: feed.items.map(...), for items it does not throw on
RECURSIVE mapItems(_)
mapItems(feedItems) ==
  IF feedItems = <<>> THEN <<>>
  ELSE Append(mapItems(SubSeq(feedItems, 1, Len(feedItems) - 1)),
              sermonOf(feedItems[Len(feedItems)], Len(feedItems) - 1))

\* line 273: sermons.map((s) => new Date(s.date).getFullYear())
RECURSIVE fullYears(_)
fullYears(sermons) ==
  IF sermons = <<>> THEN <<>>
  ELSE Append(fullYears(SubSeq(sermons, 1, Len(sermons) - 1)),
              getFullYear(sermons[Len(sermons)].date))

\* lines 258-286: the facets and the returned object
collection(sermons) ==
  [items |-> sermons,
   meta |-> [total |-> Len(sermons),
             speakers |-> sort(unique(pluck(sermons, "speaker")), "default"),
             books |-> sort(unique(filterBoolean(pluck(sermons, "book"))), "books"),
             years |-> sort(unique(fullYears(sermons)), "years"),
             error |-> Undefined]]

\* lines 227-286: the value returned when nothing throws
sermonData(feedItems) == collection(sort(mapItems(feedItems), "byDate"))

\* lines 287-302: the catch block
emptyData(message) ==
  [items |-> <<>>,
   meta |-> [total |-> 0, speakers |-> <<>>, books |-> <<>>, years |-> <<>>,
             error |-> message]]

\* a catch block that passes the error on
rethrow(message) == [settled |-> "rejected", value |-> message]

\* how the promise of the exported function settles when a step inside the
\* try block throws: the catch block returns
caught(message) == [settled |-> "resolved", value |-> emptyData(message)]

Pending == [settled |-> "pending", value |-> Undefined]

SermonsIdle ==
  /\ feed = <<>> /\ spc = "idle" /\ promise = Pending /\ failure = "none"
  /\ previous = Pending

SermonsInit ==
  /\ feed \in Feeds /\ spc = "fetch" /\ promise = Pending /\ failure = "none"
  /\ previous = Pending

\* line 218: await EleventyFetch(...) returns the feed text or throws
Fetch ==
  /\ spc = "fetch"
  /\ \/ spc' = "parse" /\ UNCHANGED <<promise, failure>>
     \/ spc' = "settled" /\ promise' = caught("fetch failed") /\ failure' = "fetch"
  /\ UNCHANGED <<feed, previous>>

\* line 224: await parser.parseString(feedXml) returns the feed or throws
Parse ==
  /\ spc = "parse"
  /\ \/ spc' = "process" /\ UNCHANGED <<promise, failure>>
     \/ spc' = "settled" /\ promise' = caught("parse failed") /\ failure' = "parse"
  /\ UNCHANGED <<feed, previous>>

\* lines 227-286: map, sort, facets, return; map throws at the first item
\* whose date cannot be printed
Process ==
  /\ spc = "process"
  /\ spc' = "settled"
  /\ IF \E k \in 1..Len(feed) : itemThrows(feed[k])
       THEN promise' = caught("Invalid time value") /\ failure' = "item"
       ELSE promise' = [settled |-> "resolved", value |-> sermonData(feed)]
            /\ failure' = "none"
  /\ UNCHANGED <<feed, previous>>

\* The feeds of a site that is built twice: different items, at most
\* MaxRebuildItems of them, none of which makes the map throw (a build over
\* such an item returns no sermon at all).
MaxRebuildItems == 3

RebuildFeeds ==
  { f \in UNION { [1..n -> { item \in FeedItems : ~itemThrows(item) }] :
                     n \in 0..MaxRebuildItems } :
      \A i, j \in 1..Len(f) : i # j => f[i] # f[j] }

RebuildInit ==
  /\ feed \in RebuildFeeds /\ spc = "fetch" /\ promise = Pending /\ failure = "none"
  /\ previous = Pending

\* the next build: the exported function is called again, and the endpoint
\* serves the same items in some order
Rebuild ==
  /\ spc = "settled"
  /\ previous = Pending
  /\ \E p \in Permutations(1..Len(feed)) : feed' = [i \in 1..Len(feed) |-> feed[p[i]]]
  /\ previous' = promise
  /\ promise' = Pending
  /\ failure' = "none"
  /\ spc' = "fetch"

settledWith(outcome) == spc = "settled" /\ promise.settled = outcome

\* C1: whatever fails (the fetch, the parse, the processing of an item), the
\* promise resolves, with no items, a total of 0, empty facets and an error
\* marker; when nothing fails, there is no error marker.
C1_FailureNeverEscapes ==
  spc = "settled" =>
    /\ promise.settled = "resolved"
    /\ failure # "none" =>
         /\ promise.value.items = <<>>
         /\ promise.value.meta.total = 0
         /\ promise.value.meta.speakers = <<>>
         /\ promise.value.meta.books = <<>>
         /\ promise.value.meta.years = <<>>
         /\ promise.value.meta.error \notin {Undefined, ""}
    /\ failure = "none" =>
         /\ promise.value.meta.error = Undefined
         /\ promise.value.meta.total = Len(feed)
    /\ (\E k \in 1..Len(feed) : feed[k].pubDate.isNaN) => failure # "none"

C1_Witness ==
  /\ settledWith("resolved")
  /\ failure = "item"
  /\ Len(feed) = 3
  /\ ~feed[1].pubDate.isNaN /\ ~feed[2].pubDate.isNaN /\ feed[3].pubDate.isNaN
  /\ promise.value.items = <<>>
  /\ promise.value.meta.error = "Invalid time value"

\* C8: the returned items are in non-ascending order of publication time,
\* items of equal time are in feed order, and sorting them again by the same
\* rule changes nothing.
C8_NewestFirstStable ==
  settledWith("resolved") =>
    LET items == promise.value.items
    IN  /\ \A i, j \in 1..Len(items) :
             i < j => /\ ~items[i].date.isNaN /\ ~items[j].date.isNaN
                      /\ items[i].date.n >= items[j].date.n
                      /\ items[i].date.n = items[j].date.n => items[i].id < items[j].id
        /\ sort(items, "byDate") = items

C8_Witness ==
  /\ settledWith("resolved")
  /\ LET items == promise.value.items
     IN  /\ Len(items) = 4
         /\ \E i \in 1..3 : items[i].date.n = items[i + 1].date.n
         /\ \E i \in 1..3 : items[i].date.n > items[i + 1].date.n
         /\ \E i \in 1..3 : items[i].id > items[i + 1].id

\* the order the claim gives the books: by the name without its number, then
\* by the number (a book without a number counting as 0)
numberOf(book) ==
  IF leadingDigits(book) = "" THEN 0 ELSE digitsValue(leadingDigits(book))

byNameThenNumber(x, y) ==
  \/ localeCompare(withoutNumber(x), withoutNumber(y)) < 0
  \/ /\ localeCompare(withoutNumber(x), withoutNumber(y)) = 0
     /\ numberOf(x) < numberOf(y)

\* C9: the books facet has no duplicates and is ordered by (name without
\* number, number), so that the books 2 John, 1 John, 3 John and Acts come
\* out as Acts, 1 John, 2 John, 3 John.
C9_BooksByNameThenNumber ==
  (settledWith("resolved") /\ failure = "none") =>
    LET books == promise.value.meta.books
    IN  /\ \A i, j \in 1..Len(books) : i < j => byNameThenNumber(books[i], books[j])
        /\ { books[i] : i \in 1..Len(books) } = {"2 John", "1 John", "3 John", "Acts"}
             => books = <<"Acts", "1 John", "2 John", "3 John">>

(***************************************************************************)
(* optimize-images.js: configuration and path helpers                      *)
(***************************************************************************)
SITE_DIR == "_site"
IMAGE_WIDTHS == <<400, 800, 1200, 1600>>
IMAGE_FORMATS == <<"avif", "webp", "auto">>
\* /favicon/i, /logo/i, /icon/i
SKIP_PATTERNS == <<"favicon", "logo", "icon">>

\* the position of the last occurrence of character c in s, 0 if none
lastIndexOf(s, c) ==
  IF \E i \in 1..Len(s) : CharAt(s, i) = c
  THEN CHOOSE i \in 1..Len(s) :
         CharAt(s, i) = c /\ \A j \in (i + 1)..Len(s) : CharAt(s, j) # c
  ELSE 0

\* path.dirname, path.basename(p, ext), path.extname and path.join on the
\* paths of the model (no "." or ".." segments, no trailing "/")
dirname(p) ==
  IF lastIndexOf(p, "/") = 0 THEN "."
  ELSE IF lastIndexOf(p, "/") = 1 THEN "/"
  ELSE SubSeq(p, 1, lastIndexOf(p, "/") - 1)

fileName(p) == slice(p, lastIndexOf(p, "/"))

extname(p) ==
  IF lastIndexOf(fileName(p), ".") <= 1 THEN ""
  ELSE slice(fileName(p), lastIndexOf(fileName(p), ".") - 1)

basename(p) == SubSeq(fileName(p), 1, Len(fileName(p)) - Len(extname(p)))

join(a, b) == IF startsWith(b, "/") THEN a \o b ELSE a \o "/" \o b

\* parseInt(attr): the digits at the start of the attribute, NaN when the
\* attribute is absent or does not start with a digit
parseInt(attr) ==
  IF attr = Undefined \/ leadingDigits(trimStart(attr)) = "" THEN NaN
  ELSE Num(digitsValue(leadingDigits(trimStart(attr))))

\* a value in a condition: NaN, null and 0 are false
truthy(x) == ~x.isNaN /\ x.n # 0

\* parseInt(attr) || null (null is as false as NaN, and is never compared)
Null == NaN
orNull(x) == IF truthy(x) THEN x ELSE Null

(***************************************************************************)
(* optimize-images.js: shouldSkipImage, getImagePath                       *)
(***************************************************************************)
\* line 46: width && height && (width < 100 || height < 100)
tooSmall(width, height) ==
  truthy(width) /\ truthy(height) /\ (width.n < 100 \/ height.n < 100)

shouldSkipImage(src, width, height) ==
  \/ \E k \in 1..Len(SKIP_PATTERNS) : includes(toLowerCase(src), SKIP_PATTERNS[k])
  \/ tooSmall(width, height)
  \/ endsWith(src, ".svg")
  \/ startsWith(src, "http://") \/ startsWith(src, "https://")

\* lines 66-81.  The condition of line 71 is a Promise, which is an object and
\* so always true: an absolute path always resolves under SITE_DIR.
getImagePath(src, htmlFilePath) ==
  IF startsWith(src, "/") THEN join(SITE_DIR, src)
  ELSE join(dirname(htmlFilePath), src)

(***************************************************************************)
(* The image files on disk, and @11ty/eleventy-img as the script calls it  *)
(* (line 110): every format of IMAGE_FORMATS, "auto" being the format of   *)
(* the file, svg first, without duplicates; every width of IMAGE_WIDTHS    *)
(* that the file has, and its own width in place of the larger ones.       *)
(***************************************************************************)
ImageFiles ==
  { [path |-> "_site/images/photo.jpg",   format |-> "jpeg", width |-> 2000, height |-> 1000],
    [path |-> "_site/images/logo.png",    format |-> "png",  width |-> 300,  height |-> 300],
    [path |-> "_site/images/anim.gif",    format |-> "gif",  width |-> 1000, height |-> 500],
    [path |-> "_site/images/modern.webp", format |-> "webp", width |-> 1600, height |-> 800],
    [path |-> "_site/images/diagram.svg", format |-> "svg",  width |-> 800,  height |-> 800],
    [path |-> "_site/images/DIAGRAM.SVG", format |-> "svg",  width |-> 800,  height |-> 800],
    [path |-> "_site/about/team.png",     format |-> "png",  width |-> 900,  height |-> 600],
    [path |-> "_site/favicon.png",        format |-> "png",  width |-> 512,  height |-> 512],
    [path |-> "src/assets/only-src.jpg",  format |-> "jpeg", width |-> 1200, height |-> 600] }

\* fs.access(path) succeeds
\* the files at a time: those and the variants written since
exists(path) == \E f \in ImageFiles \cup generated : f.path = path
fileAt(path) == CHOOSE f \in ImageFiles \cup generated : f.path = path

RECURSIVE svgFirst(_)
svgFirst(formats) ==
  IF formats = <<>> THEN <<>>
  ELSE LET front == svgFirst(SubSeq(formats, 1, Len(formats) - 1))
           last == formats[Len(formats)]
       IN  IF last = "svg" THEN <<last>> \o front ELSE Append(front, last)

RECURSIVE resolveAuto(_, _)
resolveAuto(formats, fileFormat) ==
  IF formats = <<>> THEN <<>>
  ELSE Append(resolveAuto(SubSeq(formats, 1, Len(formats) - 1), fileFormat),
              IF formats[Len(formats)] = "auto" THEN fileFormat ELSE formats[Len(formats)])

outputFormats(fileFormat) == unique(svgFirst(resolveAuto(IMAGE_FORMATS, fileFormat)))

RECURSIVE widthsUpTo(_, _)
widthsUpTo(widths, original) ==
  IF widths = <<>> THEN <<>>
  ELSE LET front == widthsUpTo(SubSeq(widths, 1, Len(widths) - 1), original)
       IN  IF widths[Len(widths)] <= original THEN Append(front, widths[Len(widths)])
           ELSE front

validWidths(original) ==
  LET kept == widthsUpTo(IMAGE_WIDTHS, original)
  IN  IF Len(kept) < Len(IMAGE_WIDTHS) /\ \A i \in 1..Len(kept) : kept[i] # original
      THEN Append(kept, original) ELSE kept

\* lines 103-107: filenameFormat
filenameFormat(src, width, format) ==
  basename(src) \o "-" \o ToString(width) \o "w." \o format

sourceTypeOf(format) == IF format = "svg" THEN "image/svg+xml" ELSE "image/" \o format

\* one entry of the metadata: a variant of the file at imagePath
variant(imagePath, width, format) ==
  [format |-> format,
   width |-> width,
   height |-> (fileAt(imagePath).height * width) \div fileAt(imagePath).width,
   filename |-> filenameFormat(imagePath, width, format),
   url |-> "/assets/images/optimized/" \o filenameFormat(imagePath, width, format),
   sourceType |-> sourceTypeOf(format)]

RECURSIVE variantsOf(_, _, _)
variantsOf(imagePath, widths, format) ==
  IF widths = <<>> THEN <<>>
  ELSE Append(variantsOf(imagePath, SubSeq(widths, 1, Len(widths) - 1), format),
              variant(imagePath, widths[Len(widths)], format))

\* the metadata object as the sequence of its entries <<key, images>>, in
\* the order of Object.keys
RECURSIVE metadataFor(_, _)
metadataFor(imagePath, formats) ==
  IF formats = <<>> THEN <<>>
  ELSE Append(metadataFor(imagePath, SubSeq(formats, 1, Len(formats) - 1)),
              [key |-> formats[Len(formats)],
               images |-> variantsOf(imagePath, validWidths(fileAt(imagePath).width),
                                     formats[Len(formats)])])

Image(imagePath) == metadataFor(imagePath, outputFormats(fileAt(imagePath).format))

(***************************************************************************)
(* optimize-images.js: generatePictureHtml                                 *)
(***************************************************************************)
hasKey(metadata, key) == \E i \in 1..Len(metadata) : metadata[i].key = key
\* metadata[key], for a key it has
imagesOf(metadata, key) ==
  metadata[CHOOSE i \in 1..Len(metadata) : metadata[i].key = key].images

\* images.map(img => `${img.url} ${img.width}w`).join(', ')
RECURSIVE srcsetOf(_)
srcsetOf(images) ==
  IF images = <<>> THEN ""
  ELSE (IF Len(images) = 1 THEN ""
        ELSE srcsetOf(SubSeq(images, 1, Len(images) - 1)) \o ", ")
         \o images[Len(images)].url \o " " \o ToString(images[Len(images)].width) \o "w"

\* line 134 and lines 136-140: one <source> per key that is not jpeg, png or jpg
RECURSIVE sourcesOf(_, _)
sourcesOf(metadata, sizes) ==
  IF metadata = <<>> THEN <<>>
  ELSE LET front == sourcesOf(SubSeq(metadata, 1, Len(metadata) - 1), sizes)
           last == metadata[Len(metadata)]
       IN  IF last.key \in {"jpeg", "png", "jpg"} THEN front
           ELSE Append(front, [type |-> last.images[1].sourceType,
                               srcset |-> srcsetOf(last.images),
                               sizes |-> sizes])

\* line 143
fallbackFormat(metadata) ==
  IF hasKey(metadata, "jpeg") THEN imagesOf(metadata, "jpeg")
  ELSE IF hasKey(metadata, "jpg") THEN imagesOf(metadata, "jpg")
  ELSE IF hasKey(metadata, "png") THEN imagesOf(metadata, "png")
  ELSE metadata[1].images

\* the <picture> element that replaces the <img> element img
generatePictureHtml(metadata, img) ==
  LET sizes == orElse(img.sizes, "100vw")
      largestFormat == metadata[1].images
      largestImage == largestFormat[Len(largestFormat)]
      fallback == fallbackFormat(metadata)
  IN  [tag |-> "picture",
       sources |-> sourcesOf(metadata, sizes),
       src |-> fallback[Len(fallback)].url,
       alt |-> orElse(img.alt, ""),
       class |-> orElse(img.class, ""),
       loading |-> orElse(img.loading, "lazy"),
       srcset |-> srcsetOf(fallback),
       sizes |-> sizes,
       width |-> ToString(largestImage.width),
       height |-> ToString(largestImage.height)]

(***************************************************************************)
(* optimize-images.js: main, processHtmlFile, processImage.  An HTML file  *)
(* is the sequence of its image elements, in document order; an element is *)
(* an <img> or, once rewritten, the <picture> with its <source> elements   *)
(* and the attributes of its fallback <img>.                               *)
(***************************************************************************)
img(src, width, height) ==
  [tag |-> "img", sources |-> <<>>, src |-> src, alt |-> "photo", class |-> Undefined,
   loading |-> Undefined, srcset |-> Undefined, sizes |-> Undefined,
   width |-> width, height |-> height]

\* the pages of the generated site that the files of a run are taken from
Pages ==
  { [path |-> "_site/index.html",
     elements |-> << img("/images/photo.jpg", Undefined, Undefined),
                     img("/images/logo.png", "300", "300"),
                     img("/images/missing.jpg", Undefined, Undefined) >>],
    [path |-> "_site/about/index.html",
     elements |-> << img("team.png", "900", "600"),
                     img("https://cdn.example.com/photo.jpg", Undefined, Undefined) >>],
    [path |-> "_site/blog/index.html",
     elements |-> << img("/images/anim.gif", Undefined, Undefined),
                     img("/images/photo.jpg", "50", "50") >>],
    [path |-> "_site/404.html", elements |-> <<>>],
    [path |-> "_site/contact/index.html",
     elements |-> << img("/images/diagram.svg", Undefined, Undefined),
                     img(Undefined, Undefined, Undefined),
                     img("/images/missing.jpg", "800", "600") >>],
    [path |-> "_site/give/index.html",
     elements |-> << img("/assets/only-src.jpg", Undefined, Undefined),
                     img("/images/modern.webp", "1600", "800") >>] }

MaxFiles == 2

\* what glob may find: at most MaxFiles different pages, in any order
Sites ==
  { site \in UNION { [1..n -> Pages] : n \in 0..MaxFiles } :
      \A i, j \in 1..Len(site) : i # j => site[i].path # site[j].path }

\* the image references of the one-image runs: every path with every pair
\* of declared sizes
Srcs ==
  { "/images/photo.jpg", "/images/logo.png", "/images/Company-LOGO.jpg",
    "/favicon.png", "/images/silicon-valley.jpg", "/images/anim.gif",
    "/images/modern.webp", "/images/diagram.svg", "/images/DIAGRAM.SVG",
    "team.png", "/images/missing.jpg", "/assets/only-src.jpg",
    "https://cdn.example.com/photo.jpg", "http://cdn.example.com/photo.jpg",
    "HTTPS://CDN.EXAMPLE.COM/photo.jpg", Undefined }
SizeAttrs == {Undefined, "50", "99", "100", "800"}

OneImageSites ==
  { << [path |-> "_site/about/index.html", elements |-> <<img(src, w, h)>>] >> :
      src \in Srcs, w \in SizeAttrs, h \in SizeAttrs }

RECURSIVE elementsOf(_)
elementsOf(files) ==
  IF files = <<>> THEN <<>>
  ELSE Append(elementsOf(SubSeq(files, 1, Len(files) - 1)), files[Len(files)].elements)

ImagesIdle ==
  /\ htmlFiles = <<>> /\ disk = <<>> /\ ipc = "idle" /\ fileIdx = 0 /\ imgIdx = 0
  /\ dom = <<>> /\ processedCount = 0 /\ skippedCount = 0 /\ generated = {}
  /\ transformed = {} /\ wrote = {} /\ visited = {} /\ looked = {} /\ run = 0

ImagesStart(sites) ==
  /\ htmlFiles \in sites /\ disk = elementsOf(htmlFiles) /\ ipc = "glob"
  /\ fileIdx = 0 /\ imgIdx = 0
  /\ dom = <<>> /\ processedCount = 0 /\ skippedCount = 0 /\ generated = {}
  /\ transformed = {} /\ wrote = {} /\ visited = {} /\ looked = {} /\ run = 1

ghostVars == <<transformed, wrote, visited, looked>>

\* line 220 and the start of the loop of line 224
Glob ==
  /\ ipc = "glob"
  /\ IF htmlFiles = <<>>
       THEN ipc' = "resolved" /\ fileIdx' = fileIdx
       ELSE ipc' = "read" /\ fileIdx' = 1
  /\ UNCHANGED <<htmlFiles, disk, imgIdx, dom, processedCount, skippedCount, generated,
               ghostVars, run>>

\* processHtmlFile has returned: the loop of main goes on, or main returns
nextFile ==
  /\ visited' = visited \cup {fileIdx}
  /\ IF fileIdx < Len(htmlFiles)
       THEN ipc' = "read" /\ fileIdx' = fileIdx + 1
       ELSE ipc' = "resolved" /\ fileIdx' = fileIdx

\* lines 157-168: readFile throws, and main with it since neither function
\* catches; or the file is loaded and, without images, left at once
ReadFile ==
  /\ ipc = "read"
  /\ \/ /\ ipc' = "rejected"
        /\ UNCHANGED <<fileIdx, imgIdx, dom, processedCount, skippedCount, visited>>
     \/ /\ dom' = disk[fileIdx]
        /\ imgIdx' = 1 /\ processedCount' = 0 /\ skippedCount' = 0
        /\ IF Len(disk[fileIdx]) = 0
             THEN nextFile
             ELSE ipc' = "images" /\ UNCHANGED <<fileIdx, visited>>
  /\ UNCHANGED <<htmlFiles, disk, generated, transformed, wrote, looked, run>>

\* the files that Image() writes for a metadata object, in outputDir
\* (line 101)
RECURSIVE writtenFiles(_)
writtenFiles(metadata) ==
  IF metadata = <<>> THEN {}
  ELSE LET last == metadata[Len(metadata)]
       IN  writtenFiles(SubSeq(metadata, 1, Len(metadata) - 1))
             \cup { [path |-> join(join(SITE_DIR, "assets/images/optimized"),
                                   last.images[i].filename),
                     format |-> last.images[i].format,
                     width |-> last.images[i].width,
                     height |-> last.images[i].height] : i \in 1..Len(last.images) }

\* line 198: $img.replaceWith(pictureHtml).  The <picture> put in place of
\* the fallback <img> of a <picture> is inside that one, behind its
\* <source> elements.
replaceWith(el, picture) ==
  IF el.tag = "img" THEN picture
  ELSE [picture EXCEPT !.sources = el.sources \o @]

skipped ==
  /\ skippedCount' = skippedCount + 1
  /\ UNCHANGED <<dom, processedCount, generated, transformed>>

\* lines 170-202: one turn of the loop over the images
HandleImage ==
  /\ ipc = "images" /\ imgIdx <= Len(dom)
  /\ LET el == dom[imgIdx]
         imagePath == getImagePath(el.src, htmlFiles[fileIdx].path)
     IN  IF el.src = Undefined \/ el.src = ""
           THEN UNCHANGED <<dom, processedCount, skippedCount, generated, transformed, looked>>
         ELSE IF shouldSkipImage(el.src, orNull(parseInt(el.width)), orNull(parseInt(el.height)))
           THEN skipped /\ UNCHANGED looked
         ELSE /\ looked' = looked \cup {<<fileIdx, imgIdx, imagePath>>}
         \* processImage: the source is not there
              /\ IF ~exists(imagePath)
                   THEN skipped
         \* processImage: Image() throws, which processImage catches
                   ELSE \/ skipped
         \* processImage returns the metadata and the element is replaced
                        \/ /\ dom' = [dom EXCEPT ![imgIdx] =
                                    replaceWith(el, generatePictureHtml(Image(imagePath), el))]
                           /\ processedCount' = processedCount + 1
                           /\ generated' = generated \cup writtenFiles(Image(imagePath))
                           /\ transformed' = transformed \cup {<<fileIdx, imgIdx>>}
                           /\ UNCHANGED skippedCount
  /\ imgIdx' = imgIdx + 1
  /\ UNCHANGED <<htmlFiles, disk, ipc, fileIdx, wrote, visited, run>>

\* a condition that writes every file that had an image to look at
writesBackAny(processed, skippedImages) == processed + skippedImages > 0

\* line 205
writesBack(processed, skippedImages) == processed > 0

\* lines 204-210: after the loop; writeFile may throw, and main with it
FinishFile ==
  /\ ipc = "images" /\ imgIdx > Len(dom)
  /\ IF writesBack(processedCount, skippedCount)
       THEN /\ wrote' = wrote \cup {fileIdx}
            /\ \/ disk' = [disk EXCEPT ![fileIdx] = dom] /\ nextFile
               \/ ipc' = "rejected" /\ UNCHANGED <<disk, fileIdx, visited>>
       ELSE nextFile /\ UNCHANGED <<disk, wrote>>
  /\ UNCHANGED <<htmlFiles, imgIdx, dom, processedCount, skippedCount, generated,
               transformed, looked, run>>

\* main is started a second time, on the tree the first run has left: glob
\* finds the same files with the content they have now
RunAgain ==
  /\ ipc = "resolved" /\ run = 1
  /\ htmlFiles' = [k \in 1..Len(htmlFiles) |->
                     [path |-> htmlFiles[k].path, elements |-> disk[k]]]
  /\ ipc' = "glob" /\ fileIdx' = 0 /\ imgIdx' = 0
  /\ dom' = <<>> /\ processedCount' = 0 /\ skippedCount' = 0
  /\ transformed' = {} /\ wrote' = {} /\ visited' = {} /\ looked' = {}
  /\ run' = 2
  /\ UNCHANGED <<disk, generated>>

mainSettled == ipc \in {"resolved", "rejected"}

\* C2: no failure in one image or one file keeps the rest from being
\* processed: main does not reject, and once it has settled, every HTML file
\* that glob found has been processed to its end.
C2_EveryFileProcessed ==
  /\ ipc # "rejected"
  /\ mainSettled => \A k \in 1..Len(htmlFiles) : k \in visited

wasTransformed(k) == \E i \in 1..Len(htmlFiles[k].elements) : <<k, i>> \in transformed

\* processHtmlFile has returned from, or thrown on, file k
finishedWith(k) == k \in visited \/ (ipc = "rejected" /\ fileIdx = k)

\* C3: processHtmlFile writes a file back if and only if one of its images
\* was transformed; a file without images, with only skipped images or with
\* only images whose processing failed keeps its content on disk.
C3_WrittenIffTransformed ==
  \A k \in 1..Len(htmlFiles) :
    /\ k \in wrote => wasTransformed(k)
    /\ (finishedWith(k) /\ wasTransformed(k)) => k \in wrote
    /\ ~wasTransformed(k) => disk[k] = htmlFiles[k].elements
    /\ (k \in visited /\ wasTransformed(k)) =>
         \A i \in 1..Len(disk[k]) :
           IF <<k, i>> \in transformed
             THEN disk[k][i].tag = "picture"
             ELSE disk[k][i] = htmlFiles[k].elements[i]

C3_Witness ==
  /\ ipc = "resolved" /\ Len(htmlFiles) = 2 /\ visited = {1, 2}
  /\ 1 \notin wrote /\ Len(htmlFiles[1].elements) = 3 /\ disk[1] = htmlFiles[1].elements
  /\ 2 \in wrote /\ disk[2] # htmlFiles[2].elements

\* the skip policy as the claim states it, on the attributes of an element
declaredBelow(attr, limit) == ~parseInt(attr).isNaN /\ parseInt(attr).n < limit

claimedSkip(el) ==
  \/ \E word \in {"logo", "icon", "favicon"} : includes(toLowerCase(el.src), word)
  \/ declaredBelow(el.width, 100) \/ declaredBelow(el.height, 100)
  \/ endsWith(el.src, ".svg")
  \/ startsWith(toLowerCase(el.src), "http://")
  \/ startsWith(toLowerCase(el.src), "https://")

\* C4: an image whose path matches logo, icon or favicon, or whose declared
\* width or height is below 100, or whose path ends in .svg, or whose path is
\* an external http(s) URL, is never transformed: it stays an <img> and no
\* variant of it is generated.
C4_SkipPolicy ==
  \A k \in 1..Len(htmlFiles) : \A i \in 1..Len(htmlFiles[k].elements) :
    LET el == htmlFiles[k].elements[i]
    IN  (el.src # Undefined /\ claimedSkip(el)) =>
          /\ <<k, i>> \notin transformed
          /\ disk[k][i] = el
          /\ (fileIdx = k /\ ipc = "images") => dom[i] = el

\* the metadata entries the claim expects in the markup of a file of format
\* fmt at imagePath
expectedSrcset(imagePath, fmt) ==
  srcsetOf(variantsOf(imagePath, validWidths(fileAt(imagePath).width), fmt))

\* C5: the markup of every transformed image ends with a fallback <img>
\* whose src and srcset are variants in the format of the source file, and
\* has exactly one <source> for each other generated format, with all the
\* generated widths.
C5_FallbackInOriginalFormat ==
  \A i \in 1..Len(dom) :
    (ipc = "images" /\ <<fileIdx, i>> \in transformed) =>
      LET imagePath == getImagePath(htmlFiles[fileIdx].elements[i].src, htmlFiles[fileIdx].path)
          fmt == fileAt(imagePath).format
          others == { f \in {"avif", "webp", "jpeg", "png", "gif", "svg"} :
                        f # fmt /\ \E n \in 1..Len(outputFormats(fmt)) : outputFormats(fmt)[n] = f }
          pic == dom[i]
      IN  /\ pic.tag = "picture"
          /\ endsWith(pic.src, "." \o fmt)
          /\ pic.srcset = expectedSrcset(imagePath, fmt)
          /\ Len(pic.sources) = Cardinality(others)
          /\ \A f \in others :
               \E n \in 1..Len(pic.sources) :
                 /\ pic.sources[n].type = sourceTypeOf(f)
                 /\ pic.sources[n].srcset = expectedSrcset(imagePath, f)

(***************************************************************************)
(* part_000, lines 276-365: the calendar data function.  A time is the     *)
(* number of milliseconds of a Date.  An entry is what node-ical hands     *)
(* over for one component of the feed: start and end are Dates, or absent  *)
(* (Null) when the component has no DTSTART or DTEND; rrule is the rule    *)
(* object of a recurring entry, NoRule when the entry has no RRULE.  The   *)
(* values of the feed are distinct components, in the order of the feed.   *)
(***************************************************************************)
MinuteMs == 60 * 1000
HourMs == 60 * MinuteMs
DayMs == 24 * HourMs

null == "<null>"

\* x || null for a string field
orNullText(x) == IF x = Undefined \/ x = "" THEN null ELSE x

\* line 289
sevenDaysFromNow(n) == n + (7 * 24 * 60 * 60 * 1000)

\* a test that forgets the past
afterWindow(eventDate, n) == eventDate > sevenDaysFromNow(n)

\* line 329: eventDate < now || eventDate > sevenDaysFromNow
outsideWindow(eventDate, n) == eventDate < n \/ eventDate > sevenDaysFromNow(n)

\* A rule as rrule holds it: occurrences at dtstart, dtstart + interval, ...,
\* count of them (0: without end); a rule that is not valid throws when it
\* is expanded.
NoRule == [dtstart |-> 0, interval |-> 0, count |-> 0, valid |-> FALSE]

rule(dtstart, interval, count) ==
  [dtstart |-> dtstart, interval |-> interval, count |-> count, valid |-> TRUE]

RECURSIVE occurrencesFrom(_, _, _, _, _)
occurrencesFrom(r, k, after, before, inc) ==
  LET date == r.dtstart + k * r.interval
  IN  IF (r.count # 0 /\ k >= r.count) \/ date > before \/ (~inc /\ date = before)
      THEN <<>>
      ELSE IF date < after \/ (~inc /\ date = after)
      THEN occurrencesFrom(r, k + 1, after, before, inc)
      ELSE <<date>> \o occurrencesFrom(r, k + 1, after, before, inc)

\* line 300: rrule.between(after, before, inc), the occurrences between the
\* two times in ascending order, the two times included when inc is true
between(r, after, before, inc) == occurrencesFrom(r, 0, after, before, inc)

\* lines 318-319 and 341-342: toLocaleDateString('en-US', {...}) in the zone
\* America/Detroit, five hours behind UTC: the day of the calendar, and the
\* hour and minute when the options ask for them
toLocaleDateString(t, withTime) ==
  LET local == t - 5 * HourMs
  IN  IF withTime THEN <<local \div DayMs, (local % DayMs) \div MinuteMs>>
      ELSE <<local \div DayMs>>

\* an occurrence that ends when the entry itself ends
definitionEnd(event, date) == event.end.n

\* lines 305-306: the end of the occurrence at date
endDate(event, date) ==
  LET duration == IF event.end # Null THEN event.end.n - event.start.n ELSE 0
  IN  date + duration

\* lines 305-320: the event pushed for one occurrence of a recurring entry
occurrenceOf(event, date) ==
  LET isAllDay == event.datetype = "date"
  IN  [title |-> orElse(event.summary, "Untitled Event"),
       start |-> Num(date),
       end |-> Num(endDate(event, date)),
       location |-> orNullText(event.location),
       description |-> orNullText(event.description),
       isAllDay |-> isAllDay,
       formattedDateTime |-> toLocaleDateString(date, ~isAllDay)]

RECURSIVE occurrencesOf(_, _)
occurrencesOf(event, dates) ==
  IF dates = <<>> THEN <<>>
  ELSE <<occurrenceOf(event, Head(dates))>> \o occurrencesOf(event, Tail(dates))

\* lines 331-343: the event pushed for a single entry
singleOf(event) ==
  LET isAllDay == event.datetype = "date"
  IN  [title |-> orElse(event.summary, "Untitled Event"),
       start |-> event.start,
       end |-> event.end,
       location |-> orNullText(event.location),
       description |-> orNullText(event.description),
       isAllDay |-> isAllDay,
       formattedDateTime |-> toLocaleDateString(event.start.n, ~isAllDay)]

\* a pass of the loop that expands a rule outside any try block and pushes
\* what the expansion yielded before it failed
pushedWithoutTry(event, n) ==
  IF event.type # "VEVENT" THEN <<>>
  ELSE IF event.rrule # NoRule
  THEN occurrencesOf(event, between(event.rrule, n, sevenDaysFromNow(n), TRUE))
  ELSE IF event.start = Null THEN <<>>
  ELSE IF outsideWindow(event.start.n, n) THEN <<>>
  ELSE <<singleOf(event)>>

\* lines 294-344: what one pass of the loop pushes to eventList
pushedFor(event, n) ==
  IF event.type # "VEVENT" THEN <<>>
  ELSE IF event.rrule # NoRule
  THEN IF event.rrule.valid
       THEN occurrencesOf(event, between(event.rrule, n, sevenDaysFromNow(n), TRUE))
       ELSE <<>>
  ELSE IF event.start = Null THEN <<>>
  ELSE IF outsideWindow(event.start.n, n) THEN <<>>
  ELSE <<singleOf(event)>>

\* Array.prototype.slice(begin, end)
sliceArray(a, begin, end) ==
  SubSeq(a, begin + 1, IF end < Len(a) THEN end ELSE Len(a))

\* lines 348-350
sortedEvents(list) == sliceArray(sort(list, "byStart"), 0, 7)

\* The time of the build, and the entries of the feed relative to it.
BuildTime == 10 * DayMs

Nows == {BuildTime, BuildTime + HourMs}

entry(type, summary, start, end, datetype, r) ==
  [type |-> type, summary |-> summary, start |-> start, end |-> end,
   datetype |-> datetype, rrule |-> r,
   location |-> IF datetype = "date" THEN Undefined ELSE "Fellowship Hall",
   description |-> Undefined]

timed(summary, start, length) ==
  entry("VEVENT", summary, Num(start), Num(start + length), "date-time", NoRule)

CalendarEntries ==
  { timed("Potluck", BuildTime + 6 * DayMs, HourMs),
    timed("Retreat", BuildTime + 8 * DayMs, 2 * DayMs),
    timed("Workday", BuildTime - DayMs, 3 * HourMs),
    timed("Concert", BuildTime + 7 * DayMs, HourMs),
    timed("Supper", BuildTime + 7 * DayMs + HourMs, HourMs),
    timed("Prayer", BuildTime, HourMs),
    entry("VEVENT", Undefined, Num(BuildTime + 2 * DayMs), Null, "date", NoRule),
    entry("VEVENT", "Undated", Null, Null, "date-time", NoRule),
    entry("VTIMEZONE", Undefined, Null, Null, "date-time", NoRule),
    entry("VEVENT", "Worship", Num(BuildTime - 3 * DayMs),
          Num(BuildTime - 3 * DayMs + HourMs), "date-time",
          rule(BuildTime - 3 * DayMs, 7 * DayMs, 0)),
    entry("VEVENT", "Morning Prayer", Num(BuildTime - 2 * DayMs),
          Num(BuildTime - 2 * DayMs + HourMs), "date-time",
          rule(BuildTime - 2 * DayMs, DayMs, 0)),
    entry("VEVENT", "Vacation Bible School", Num(BuildTime - 9 * DayMs), Null, "date",
          rule(BuildTime - 9 * DayMs, DayMs, 5)),
    entry("VEVENT", "Choir", Num(BuildTime + DayMs), Num(BuildTime + DayMs + HourMs),
          "date-time", [rule(BuildTime + DayMs, 7 * DayMs, 0) EXCEPT !.valid = FALSE]) }

MaxEvents == 3

RECURSIVE feedsOf(_)
feedsOf(n) ==
  IF n = 0 THEN {<<>>}
  ELSE LET shorter == feedsOf(n - 1)
       IN  shorter \cup
           { Append(f, e) : <<f, e>> \in
               { p \in shorter \X CalendarEntries :
                   Len(p[1]) = n - 1 /\ \A i \in 1..Len(p[1]) : p[1][i] # p[2] } }

CalendarFeeds == feedsOf(MaxEvents)

returned(list) == [settled |-> "resolved", value |-> list]

CalendarIdle ==
  /\ events = <<>> /\ now = 0 /\ cpc = "idle" /\ eventIdx = 0
  /\ eventList = <<>> /\ origin = <<>> /\ calendar = Pending

CalendarInit ==
  /\ events \in CalendarFeeds /\ now = 0 /\ cpc = "fetch" /\ eventIdx = 0
  /\ eventList = <<>> /\ origin = <<>> /\ calendar = Pending

\* lines 285-291: await ical.async.fromURL(...) hands the entries over, and
\* the clock is read; or it throws and the catch block returns [] (line 363)
FetchCalendar ==
  /\ cpc = "fetch"
  /\ \/ /\ now' \in Nows
        /\ cpc' = "loop"
        /\ eventIdx' = 1
        /\ UNCHANGED calendar
     \/ /\ calendar' = returned(<<>>)
        /\ cpc' = "settled"
        /\ UNCHANGED <<now, eventIdx>>
  /\ UNCHANGED <<events, eventList, origin>>

\* lines 293-345: one pass of the loop over the entries
HandleEvent ==
  /\ cpc = "loop"
  /\ eventIdx <= Len(events)
  /\ LET pushed == pushedFor(events[eventIdx], now)
     IN  /\ eventList' = eventList \o pushed
         /\ origin' = origin \o [i \in 1..Len(pushed) |-> eventIdx]
  /\ eventIdx' = eventIdx + 1
  /\ UNCHANGED <<events, now, cpc, calendar>>

\* lines 347-359: after the loop
ReturnEvents ==
  /\ cpc = "loop"
  /\ eventIdx > Len(events)
  /\ calendar' = returned(sortedEvents(eventList))
  /\ cpc' = "settled"
  /\ UNCHANGED <<events, now, eventIdx, eventList, origin>>

\* the window of the calendar: from the time of the build to seven days later
inWindow(t) == now <= t /\ t <= now + 7 * DayMs

isSingle(event) == event.type = "VEVENT" /\ event.rrule = NoRule

\* the events of eventList that are from entry k
candidatesOf(k) == { i \in 1..Len(eventList) : origin[i] = k }

\* C10: every event of the calendar output starts in the window
\* now <= t <= now + 7 days, and a non-recurring entry the loop has passed
\* is a candidate for the output, with its own start, if and only if its
\* start lies in the window.
C10_WindowedCandidates ==
  /\ cpc = "settled" =>
       \A i \in 1..Len(calendar.value) : inWindow(calendar.value[i].start.n)
  /\ \A k \in 1..Len(events) :
       (k < eventIdx /\ isSingle(events[k])) =>
         /\ candidatesOf(k) # {} <=>
              (events[k].start # Null /\ inWindow(events[k].start.n))
         /\ \A i \in candidatesOf(k) : eventList[i].start = events[k].start
         /\ Cardinality(candidatesOf(k)) <= 1

\* a feed of three single entries, starting 6 days ahead, 8 days ahead and a
\* day ago: the output is the first alone
C10_Witness ==
  /\ cpc = "settled"
  /\ now = BuildTime
  /\ Len(events) = 3
  /\ \A k \in 1..3 : isSingle(events[k])
  /\ events[1].start = Num(now + 8 * DayMs)
  /\ events[2].start = Num(now + 6 * DayMs)
  /\ events[3].start = Num(now - DayMs)
  /\ Len(calendar.value) = 1
  /\ calendar.value[1].start = Num(now + 6 * DayMs)
  /\ calendar.value[1].title = "Potluck"

isRecurring(event) == event.type = "VEVENT" /\ event.rrule # NoRule

\* the times in the window at which the rule r has an occurrence
occurrenceTimes(r) ==
  LET windowEnd == now + 7 * DayMs
      last == IF windowEnd < r.dtstart THEN 0 - 1
              ELSE (windowEnd - r.dtstart) \div r.interval
  IN  { r.dtstart + j * r.interval :
          j \in { i \in 0..last : (r.count = 0 \/ i < r.count)
                                  /\ inWindow(r.dtstart + i * r.interval) } }

\* C11: for a recurring entry with a rule that expands, the events pushed
\* are one event per occurrence of the rule in the window now .. now + 7
\* days, each starting at its occurrence, and the end of each minus its
\* start is the end of the entry minus the start of the entry (0 for an
\* entry without end): the occurrences have the duration of the entry, not
\* its end time.
C11_OccurrencesKeepDuration ==
  \A k \in 1..Len(events) :
    (k < eventIdx /\ isRecurring(events[k]) /\ events[k].rrule.valid) =>
      /\ { eventList[i].start.n : i \in candidatesOf(k) } = occurrenceTimes(events[k].rrule)
      /\ Cardinality(candidatesOf(k)) = Cardinality(occurrenceTimes(events[k].rrule))
      /\ \A i \in candidatesOf(k) :
           eventList[i].end.n - eventList[i].start.n =
             IF events[k].end # Null THEN events[k].end.n - events[k].start.n ELSE 0

\* the weekly hour of worship, begun three days before the build: its one
\* occurrence in the window is four days ahead and lasts the hour
C11_Witness ==
  /\ cpc = "settled"
  /\ now = BuildTime
  /\ Len(events) = 1
  /\ events[1].summary = "Worship"
  /\ events[1].end.n - events[1].start.n = HourMs
  /\ events[1].end.n < now
  /\ Len(calendar.value) = 1
  /\ calendar.value[1].start = Num(now + 4 * DayMs)
  /\ calendar.value[1].end = Num(now + 4 * DayMs + HourMs)

\* how often the event e is in the list
timesIn(list, e) == Cardinality({ i \in 1..Len(list) : list[i] = e })

returnedNormally == cpc = "settled" /\ eventIdx > Len(events)

\* C12: the calendar output holds events of eventList only, as many as
\* eventList has but at most 7, in non-descending order of start, and no
\* event of eventList that was left out starts before one of the output.
C12_SortedFirstSeven ==
  returnedNormally =>
    LET out == calendar.value
    IN  /\ Len(out) <= 7
        /\ Len(out) = IF Len(eventList) < 7 THEN Len(eventList) ELSE 7
        /\ \A i \in 1..Len(out) : \A j \in i..Len(out) : out[i].start.n <= out[j].start.n
        /\ \A i \in 1..Len(out) : timesIn(out, out[i]) <= timesIn(eventList, out[i])
        /\ \A i \in 1..Len(eventList) :
             timesIn(out, eventList[i]) < timesIn(eventList, eventList[i]) =>
               \A j \in 1..Len(out) : out[j].start.n <= eventList[i].start.n

\* a single event six days ahead and a daily rule with eight occurrences in
\* the window: nine candidates, pushed out of order, and the output is the
\* first seven, the single event among them and last
C12_Witness ==
  /\ returnedNormally
  /\ now = BuildTime
  /\ Len(events) = 2
  /\ events[1].summary = "Potluck"
  /\ events[2].summary = "Morning Prayer"
  /\ Len(eventList) = 9
  /\ eventList[1].title = "Potluck"
  /\ Len(calendar.value) = 7
  /\ calendar.value[1].start = Num(now)
  /\ calendar.value[7].title = "Potluck"

\* where the source of an image reference is to be found: for a path from
\* the root, under the output tree when the file is there and under the
\* source tree otherwise; for a relative path, beside the HTML file
claimedImagePath(src, htmlFilePath) ==
  IF startsWith(src, "/")
    THEN IF exists(join("_site", src)) THEN join("_site", src) ELSE join("src", src)
    ELSE join(dirname(htmlFilePath), src)

\* C13: when the file of an image reference exists where it is to be found
\* (under the output root for an absolute path, else under the source tree;
\* beside the HTML file for a relative path), that file is the one
\* processImage looks for, so an image that is in the source tree only is
\* found.
C13_SourceResolution ==
  \A l \in looked :
    LET src == htmlFiles[l[1]].elements[l[2]].src
        claimed == claimedImagePath(src, htmlFiles[l[1]].path)
    IN  exists(claimed) => l[3] = claimed

\* an entry whose rule throws when it is expanded
hasFailingRule(event) == isRecurring(event) /\ ~event.rrule.valid

\* C14: the function never throws, and a failure of the fetch yields the
\* empty list; an entry whose rule fails adds no event, and every other
\* entry of the feed, before or after it, adds the events it adds without
\* it: a single entry its event when it starts in the window, a recurring
\* entry one event per occurrence in the window; the output is cut from
\* these events alone.
C14_FailingRuleIsolated ==
  /\ cpc = "settled" => calendar.settled = "resolved"
  /\ (cpc = "settled" /\ ~returnedNormally) => calendar.value = <<>>
  /\ returnedNormally =>
       /\ \A k \in 1..Len(events) :
            /\ hasFailingRule(events[k]) => candidatesOf(k) = {}
            /\ (isSingle(events[k]) /\ events[k].start # Null /\ inWindow(events[k].start.n)) =>
                 Cardinality(candidatesOf(k)) = 1
            /\ (isRecurring(events[k]) /\ events[k].rrule.valid) =>
                 { eventList[i].start.n : i \in candidatesOf(k) } =
                   occurrenceTimes(events[k].rrule)
       /\ Len(calendar.value) = IF Len(eventList) < 7 THEN Len(eventList) ELSE 7
       /\ \A i \in 1..Len(eventList) :
            Len(eventList) <= 7 => timesIn(calendar.value, eventList[i]) = 1

\* a feed whose second entry has a failing rule: the single event before it
\* and the weekly occurrence after it are the output
C14_Witness ==
  /\ returnedNormally
  /\ now = BuildTime
  /\ Len(events) = 3
  /\ events[1].summary = "Potluck"
  /\ hasFailingRule(events[2])
  /\ events[3].summary = "Worship"
  /\ Len(calendar.value) = 2
  /\ calendar.value[1].title = "Worship"
  /\ calendar.value[2].title = "Potluck"

\* the sermons of a returned collection that were made from the item
sermonsOf(data, item) ==
  { data.items[i] : i \in { j \in 1..Len(data.items) :
      /\ data.items[j].scripture = orElse(item.content, orElse(item.description, ""))
      /\ data.items[j].date = item.pubDate
      /\ data.items[j].link = orElse(item.link, "") } }

hasOwnIdentifier(item) ==
  (item.guid # Undefined /\ item.guid # "") \/ (item.link # Undefined /\ item.link # "")

bothBuildsReturned ==
  /\ spc = "settled" /\ failure = "none"
  /\ previous # Pending /\ previous.value.meta.error = Undefined

\* C15: after two builds over the same items in any two orders, an item
\* with a guid or a link has in both collections the one identifier that is
\* its guid, or its link when it has no guid; an item with neither has an
\* identifier sermon-<index> in each.
C15_IdentifierStable ==
  bothBuildsReturned =>
    \A k \in 1..Len(feed) :
      LET item == feed[k]
          first == { s.guid : s \in sermonsOf(previous.value, item) }
          second == { s.guid : s \in sermonsOf(promise.value, item) }
      IN  IF hasOwnIdentifier(item)
            THEN /\ first = { IF item.guid # Undefined /\ item.guid # "" THEN item.guid
                               ELSE item.link }
                 /\ second = first
            ELSE /\ Cardinality(first) = 1 /\ Cardinality(second) = 1
                 /\ \A id \in first \cup second :
                      \E n \in 0..(Len(feed) - 1) : id = "sermon-" \o ToString(n)

\* two builds over three items that come in another order the second time:
\* the item with a guid and the item with a link only keep their
\* identifiers, the item with neither is sermon-2 and then sermon-0
C15_Witness ==
  /\ bothBuildsReturned
  /\ Len(feed) = 3
  /\ feed[1].guid = Undefined /\ feed[1].link = Undefined
  /\ feed[2].guid = Undefined /\ feed[2].link = "l-b"
  /\ feed[3].guid = "g-a"
  /\ \E s \in sermonsOf(previous.value, feed[1]) : s.guid = "sermon-2"
  /\ \E s \in sermonsOf(promise.value, feed[1]) : s.guid = "sermon-0"
  /\ \E s \in sermonsOf(previous.value, feed[2]) : s.guid = "l-b"
  /\ \E s \in sermonsOf(promise.value, feed[2]) : s.guid = "l-b"
  /\ \E s \in sermonsOf(previous.value, feed[3]) : s.guid = "g-a"
  /\ \E s \in sermonsOf(promise.value, feed[3]) : s.guid = "g-a"

\* C16: in a second run of main over the tree the first run has left, the
\* fallback <img> of a <picture> of the first run is not processed again:
\* no <picture> is transformed, no variant is generated from a variant, and
\* no file is written but for an image that was still a plain <img>.
C16_SecondRunKeepsPictures ==
  run = 2 =>
    /\ \A t \in transformed : htmlFiles[t[1]].elements[t[2]].tag = "img"
    /\ \A k \in wrote :
         \E i \in 1..Len(htmlFiles[k].elements) :
           <<k, i>> \in transformed /\ htmlFiles[k].elements[i].tag = "img"
    /\ \A k \in 1..Len(htmlFiles) : \A i \in 1..Len(htmlFiles[k].elements) :
         htmlFiles[k].elements[i].tag = "picture" =>
           disk[k][i] = htmlFiles[k].elements[i]

(***************************************************************************)
(* Specifications: one per function or pipeline, the others idle.          *)
(***************************************************************************)
InitNorm == NormInit /\ DurIdle /\ SermonsIdle /\ ImagesIdle /\ CalendarIdle
NextNorm == Normalize /\ UNCHANGED <<durVars, sermonVars, imageVars, calendarVars>>
SpecNorm == InitNorm /\ [][NextNorm]_vars

InitDuration == DurInit /\ NormIdle /\ SermonsIdle /\ ImagesIdle /\ CalendarIdle
NextDuration == ParseDuration /\ UNCHANGED <<normVars, sermonVars, imageVars, calendarVars>>
SpecDuration == InitDuration /\ [][NextDuration]_vars

InitSermons == SermonsInit /\ NormIdle /\ DurIdle /\ ImagesIdle /\ CalendarIdle
NextSermons == (Fetch \/ Parse \/ Process) /\ UNCHANGED <<normVars, durVars, imageVars, calendarVars>>
SpecSermons == InitSermons /\ [][NextSermons]_vars

\* two builds of the sermon data, one after the other
InitRebuild == RebuildInit /\ NormIdle /\ DurIdle /\ ImagesIdle /\ CalendarIdle
NextRebuild ==
  (Fetch \/ Parse \/ Process \/ Rebuild) /\ UNCHANGED <<normVars, durVars, imageVars, calendarVars>>
SpecRebuild == InitRebuild /\ [][NextRebuild]_vars

\* a run of main over a site of several pages
InitImages == ImagesStart(Sites) /\ NormIdle /\ DurIdle /\ SermonsIdle /\ CalendarIdle
NextImages ==
  (Glob \/ ReadFile \/ HandleImage \/ FinishFile) /\ UNCHANGED <<normVars, durVars, sermonVars, calendarVars>>
SpecImages == InitImages /\ [][NextImages]_vars

\* a run of main over one page with one image
InitOneImage == ImagesStart(OneImageSites) /\ NormIdle /\ DurIdle /\ SermonsIdle /\ CalendarIdle
SpecOneImage == InitOneImage /\ [][NextImages]_vars

\* two runs of main over a site of several pages
NextTwoRuns ==
  (Glob \/ ReadFile \/ HandleImage \/ FinishFile \/ RunAgain)
    /\ UNCHANGED <<normVars, durVars, sermonVars, calendarVars>>
SpecTwoRuns == InitImages /\ [][NextTwoRuns]_vars

InitCalendar == CalendarInit /\ NormIdle /\ DurIdle /\ SermonsIdle /\ ImagesIdle
NextCalendar ==
  (FetchCalendar \/ HandleEvent \/ ReturnEvents)
    /\ UNCHANGED <<normVars, durVars, sermonVars, imageVars>>
SpecCalendar == InitCalendar /\ [][NextCalendar]_vars

====
